---- MODULE Spec2Model ----
(***************************************************************************)
(* A model of airfoils.py: the Airfoil class (construction with in-place   *)
(* reordering and normalisation, all_points, interpolate_y, camber_line,   *)
(* camber_line_angle, morph_new_from_two_foils), MorphAirfoil.at_eta and   *)
(* the camber part of gen_NACA4_airfoil.                                   *)
(*                                                                         *)
(* Numbers.  A float is modelled as an exact fraction <<n, d>> with d > 0  *)
(* in lowest terms, extended by the three IEEE specials <<1, 0>> (+inf),   *)
(* <<-1, 0>> (-inf) and <<0, 0>> (NaN).  Rounding is not modelled, and the *)
(* sign of a zero is not kept (the only divisor the program ever divides   *)
(* an array by is an abs(), that is +0.0 or more).                         *)
(*                                                                         *)
(* Memory.  numpy rows are views: `upper[0]` shares the caller's array,    *)
(* np.flipud returns a reversed view of the same memory and `/=` writes    *)
(* through a view.  The model therefore keeps the arrays in a heap `mem`   *)
(* and an Airfoil's four attributes are views into it.                     *)
(***************************************************************************)
EXTENDS Integers, Sequences, FiniteSets, TLC

VARIABLES
    mem,        \* heap of 2 x N arrays: mem[b] = <<x row, y row>>
    airfoils,   \* the Airfoil objects constructed so far, in order
    res,        \* the last call: its name, arguments, status and return value
    naca        \* the last gen_NACA4_airfoil camber evaluation

vars == <<mem, airfoils, res, naca>>

(***************************************************************************)
(* Extended fractions                                                      *)
(***************************************************************************)
RECURSIVE GCD(_, _)
GCD(a, b) == IF b = 0 THEN a ELSE GCD(b, a % b)

IAbs(n) == IF n < 0 THEN -n ELSE n
ISgn(n) == IF n < 0 THEN -1 ELSE IF n > 0 THEN 1 ELSE 0

\* n/d for d # 0, in lowest terms with a positive denominator
R(n, d) ==
    LET g == GCD(IAbs(n), IAbs(d))
        s == IF d < 0 THEN -1 ELSE 1
    IN  <<(s * n) \div g, (s * d) \div g>>

NaN  == <<0, 0>>
PInf == <<1, 0>>
NInf == <<-1, 0>>
Zero == <<0, 1>>
One  == <<1, 1>>
Two  == <<2, 1>>

IsNaN(a)    == a = NaN
IsInf(a)    == a[2] = 0 /\ a[1] # 0
IsFinite(a) == a[2] # 0
Sgn(a)      == ISgn(a[1])

Neg(a) == <<-a[1], a[2]>>
FAbs(a) == <<IAbs(a[1]), a[2]>>

Add(a, b) ==
    IF IsNaN(a) \/ IsNaN(b) THEN NaN
    ELSE IF IsInf(a) THEN (IF IsInf(b) /\ b # a THEN NaN ELSE a)
    ELSE IF IsInf(b) THEN b
    ELSE LET g == GCD(a[2], b[2])
         IN  R(a[1] * (b[2] \div g) + b[1] * (a[2] \div g), (a[2] \div g) * b[2])

Sub(a, b) == Add(a, Neg(b))

Mul(a, b) ==
    IF IsNaN(a) \/ IsNaN(b) THEN NaN
    ELSE IF IsInf(a) \/ IsInf(b)
         THEN (IF Sgn(a) = 0 \/ Sgn(b) = 0 THEN NaN ELSE <<Sgn(a) * Sgn(b), 0>>)
    ELSE LET p == R(a[1], b[2])
             q == R(b[1], a[2])
         IN  <<p[1] * q[1], p[2] * q[2]>>

\* a / b as numpy divides floats: x/0 is +-inf, 0/0 and inf/inf are NaN
Div(a, b) ==
    IF IsNaN(a) \/ IsNaN(b) THEN NaN
    ELSE IF IsInf(b) THEN (IF IsInf(a) THEN NaN ELSE Zero)
    ELSE IF Sgn(b) = 0 THEN (IF Sgn(a) = 0 THEN NaN ELSE <<Sgn(a), 0>>)
    ELSE IF IsInf(a) THEN <<Sgn(a) * Sgn(b), 0>>
    ELSE Mul(a, R(b[2], b[1]))

\* a > b; every comparison with NaN is false
Gt(a, b) ==
    IF IsNaN(a) \/ IsNaN(b) THEN FALSE
    ELSE IF IsInf(a) THEN a = PInf /\ b # PInf
    ELSE IF IsInf(b) THEN b = NInf
    ELSE a[1] * b[2] > b[1] * a[2]

Ge(a, b) == Gt(a, b) \/ (~IsNaN(a) /\ a = b)
Lt(a, b) == Gt(b, a)
Le(a, b) == Ge(b, a)

Reverse(s) == [i \in 1..Len(s) |-> s[Len(s) + 1 - i]]
Last(s) == s[Len(s)]

(***************************************************************************)
(* Arrays and views                                                        *)
(***************************************************************************)
XROW == 1
YROW == 2

\* arr[XROW] / arr[YROW] of a 2 x N array held in the heap at b
RowView(b, row) == [buf |-> b, row |-> row, rev |-> FALSE]

\* np.flipud of a 1-D view: the same memory, read backwards
flipud(v) == [v EXCEPT !.rev = ~v.rev]

\* what reading through view v returns for heap m
Read(m, v) ==
    LET r == m[v.buf][v.row] IN IF v.rev THEN Reverse(r) ELSE r

\* `view /= f`: every element of the row the view shares is divided in place
IDiv(m, v, f) ==
    [m EXCEPT ![v.buf][v.row] = [i \in 1..Len(@) |-> Div(@[i], f)]]

(***************************************************************************)
(* Airfoil: an object is a record of four views and norm_factor            *)
(***************************************************************************)
x_upper(m, a) == Read(m, a.x_upper)
y_upper(m, a) == Read(m, a.y_upper)
x_lower(m, a) == Read(m, a.x_lower)
y_lower(m, a) == Read(m, a.y_lower)

\* a variant that forgets to flip y_lower along with x_lower
order_data_points_y_lower_kept(m, a) ==
    LET xu == Read(m, a.x_upper)
        xl == Read(m, a.x_lower)
        a1 == IF Gt(xu[1], Last(xu))
              THEN [a EXCEPT !.x_upper = flipud(@), !.y_upper = flipud(@)]
              ELSE a
    IN  IF Gt(xl[1], Last(xl)) THEN [a1 EXCEPT !.x_lower = flipud(@)] ELSE a1

\* _order_data_points: a surface whose first x is greater than its last is
\* flipped, x and y together, each surface on its own
order_data_points(m, a) ==
    LET xu == Read(m, a.x_upper)
        xl == Read(m, a.x_lower)
        a1 == IF Gt(xu[1], Last(xu))
              THEN [a EXCEPT !.x_upper = flipud(@), !.y_upper = flipud(@)]
              ELSE a
    IN  IF Gt(xl[1], Last(xl))
        THEN [a1 EXCEPT !.x_lower = flipud(@), !.y_lower = flipud(@)]
        ELSE a1

\* the chordwise extent of the (reordered) upper surface
chord_extent(xu) == FAbs(Sub(Last(xu), xu[1]))

\* _normalise_data_points: norm_factor from the upper surface, then the four
\* in-place divisions, in the order of the source.  Returns the heap and the
\* object.
normalise_data_points(m, a) ==
    LET nf == chord_extent(Read(m, a.x_upper))
        m1 == IDiv(m,  a.x_upper, nf)
        m2 == IDiv(m1, a.y_upper, nf)
        m3 == IDiv(m2, a.x_lower, nf)
        m4 == IDiv(m3, a.y_lower, nf)
    IN  [mem |-> m4, airfoil |-> [a EXCEPT !.norm_factor = nf]]

\* Airfoil.__init__(upper, lower) for two arrays of the heap.  Indexing
\* x[0] of an empty row raises IndexError before anything is written.
Airfoil_init(m, upper, lower) ==
    LET a0 == [x_upper |-> RowView(upper, XROW), y_upper |-> RowView(upper, YROW),
               x_lower |-> RowView(lower, XROW), y_lower |-> RowView(lower, YROW),
               norm_factor |-> One]
    IN  IF Len(m[upper][XROW]) = 0 \/ Len(m[lower][XROW]) = 0
        THEN [status |-> "IndexError", mem |-> m, new |-> <<>>]
        ELSE LET n == normalise_data_points(m, order_data_points(m, a0))
             IN  [status |-> "ok", mem |-> n.mem, new |-> <<n.airfoil>>]

\* a variant that puts the lower surface first
all_points_lower_first(m, a) ==
    << x_lower(m, a) \o x_upper(m, a), y_lower(m, a) \o y_upper(m, a) >>

\* Airfoil.all_points: row of x (upper then lower), row of y
all_points(m, a) ==
    << x_upper(m, a) \o x_lower(m, a), y_upper(m, a) \o y_lower(m, a) >>

(***************************************************************************)
(* Queries.  An argument xsi is [scalar |-> BOOLEAN, pts |-> sequence]: a  *)
(* Python scalar is a 0-d array, kept as a sequence of one element.        *)
(*                                                                         *)
(* interp1d(kind='cubic') is scipy's: with exactly four samples its        *)
(* not-a-knot spline has a single polynomial piece, the cubic through the  *)
(* four points, which is also what it extrapolates with.  That case is     *)
(* computed exactly here.  With fewer than four samples scipy raises       *)
(* ValueError.  Other data (more samples, repeated x, non-finite values)   *)
(* is outside the model: no query is taken on such an object.              *)
(***************************************************************************)
RECURSIVE SumF(_, _), IProd(_, _), LCMs(_, _)
SumF(f, n)  == IF n = 0 THEN Zero ELSE Add(SumF(f, n - 1), f[n])
IProd(f, n) == IF n = 0 THEN 1 ELSE IProd(f, n - 1) * f[n]
\* the least common denominator of the fractions s[1..n]
LCMs(s, n) ==
    IF n = 0 THEN 1
    ELSE LET l == LCMs(s, n - 1) IN (l \div GCD(l, s[n][2])) * s[n][2]

SPLINE_MIN == 4

AllFinite(s) == \A i \in 1..Len(s) : IsFinite(s[i])
Distinct(s)  == \A i, j \in 1..Len(s) : i # j => s[i] # s[j]

CubicData(x, y) == Len(x) = SPLINE_MIN /\ AllFinite(x) /\ AllFinite(y) /\ Distinct(x)

\* The interpolating polynomial through (x[i], y[i]), evaluated at t, in
\* Lagrange's form: sum of y[i] * prod_{j # i} (t - x[j]) / (x[i] - x[j]).
\* The abscissae are first brought to their common denominator D, so that
\* the products are products of integers.
interp1d(x, y, t) ==
    LET n == Len(x)
        D == LCMs(x \o <<t>>, n + 1)
        X == [i \in 1..n |-> x[i][1] * (D \div x[i][2])] \o <<>>
        T == t[1] * (D \div t[2])
        num(i) == IProd([j \in 1..n |-> IF j = i THEN 1 ELSE T - X[j]], n)
        den(i) == IProd([j \in 1..n |-> IF j = i THEN 1 ELSE X[i] - X[j]], n)
    IN  SumF([i \in 1..n |-> Mul(y[i], R(num(i), den(i)))], n)

\* interp1d can be built for both surfaces of a
TooFewSamples(m, a) ==
    Len(x_upper(m, a)) < SPLINE_MIN \/ Len(x_lower(m, a)) < SPLINE_MIN
Interpolable(m, a) ==
    CubicData(x_upper(m, a), y_upper(m, a)) /\ CubicData(x_lower(m, a), y_lower(m, a))
Modelled(m, a) == TooFewSamples(m, a) \/ Interpolable(m, a)

\* Airfoil.interpolate_y(xsi) on an interpolable object: <<y_upper, y_lower>>
interpolate_y(m, a, pts) ==
    << [i \in 1..Len(pts) |-> interp1d(x_upper(m, a), y_upper(m, a), pts[i])],
       [i \in 1..Len(pts) |-> interp1d(x_lower(m, a), y_lower(m, a), pts[i])] >>

\* a variant that takes the half thickness, (y_upper - y_lower)/2
camber_line_half_thickness(m, a, pts) ==
    LET y == interpolate_y(m, a, pts)
    IN  [i \in 1..Len(pts) |-> Div(Sub(y[1][i], y[2][i]), Two)]

\* Airfoil.camber_line(xsi) = (y_upper + y_lower)/2
camber_line(m, a, pts) ==
    LET y == interpolate_y(m, a, pts)
    IN  [i \in 1..Len(pts) |-> Div(Add(y[1][i], y[2][i]), Two)]

\* The step of the finite difference.  The source passes dx=1e-12; the model
\* takes a step whose cubes stay inside TLC's integers.  The difference
\* quotient is the source's.
dx == <<1, 8>>

\* scipy.misc.derivative(f, x0, dx) with its defaults n=1, order=3:
\* (f(x0 + dx) - f(x0 - dx)) / 2 / dx
derivative(m, a, pts) ==
    LET hi == camber_line(m, a, [i \in 1..Len(pts) |-> Add(pts[i], dx)])
        lo == camber_line(m, a, [i \in 1..Len(pts) |-> Sub(pts[i], dx)])
    IN  [i \in 1..Len(pts) |-> Div(Div(Sub(hi[i], lo[i]), Two), dx)]

\* An angle theta = rad2deg(arctan(s)) is kept as its slope s, since arctan
\* is strictly increasing and odd: theta = 0 iff s = 0, and
\* abs(theta) > 50 iff abs(s) > tan(50 deg) = 1.19175359...  No slope of the
\* model falls between the two fractions that bracket tan(50 deg) here.
TAN_LIMIT_LO == <<1191, 1000>>
TAN_LIMIT_HI == <<1192, 1000>>
Bracketed(s) == Gt(FAbs(s), TAN_LIMIT_LO) /\ ~Gt(FAbs(s), TAN_LIMIT_HI)
ExceedsLimit(s) == Gt(FAbs(s), TAN_LIMIT_LO)

\* a variant without the abs: `0 if x > 50 else x`
clamp_without_abs(s) == IF Gt(s, TAN_LIMIT_LO) THEN Zero ELSE s

\* theta = np.array([0 if abs(x) > 50 else x for x in theta])
clamp(s) == IF ExceedsLimit(s) THEN Zero ELSE s

\* Airfoil.camber_line_angle(xsi): a scalar is made 1-D, and squeezed back
camber_line_angle(m, a, xsi) ==
    LET d == derivative(m, a, xsi.pts)
    IN  [scalar |-> xsi.scalar, pts |-> [i \in 1..Len(d) |-> clamp(d[i])]]

(***************************************************************************)
(* Morphing                                                                *)
(***************************************************************************)
\* np.linspace(0, 1, n)
linspace(n) == [i \in 1..n |-> IF n = 1 THEN Zero ELSE R(i - 1, n - 1)]

\* a variant that excludes the endpoint 0: `0 < eta <= 1`
eta_in_range_open_at_zero(eta) == Gt(eta, Zero) /\ Le(eta, One)

\* `0 <= eta <= 1`
eta_in_range(eta) == Ge(eta, Zero) /\ Le(eta, One)

\* a variant with the two weights exchanged
blend_weights_exchanged(y1, y2, eta) ==
    [i \in 1..Len(y1) |-> Add(Mul(y1[i], eta), Mul(y2[i], Sub(One, eta)))]

\* y_af1*(1 - eta) + y_af2*eta, elementwise
blend(y1, y2, eta) ==
    [i \in 1..Len(y1) |-> Add(Mul(y1[i], Sub(One, eta)), Mul(y2[i], eta))]

\* Airfoil.morph_new_from_two_foils(airfoil1, airfoil2, eta, n_points) on
\* heap m.  np.array([xsi, y]) allocates: the two new 2 x n arrays are fresh
\* heap cells, dropped again when the constructor raises.
morph_new_from_two_foils(m, a1, a2, eta, n_points) ==
    IF ~eta_in_range(eta)
    THEN [status |-> "ValueError", raised_by |-> "eta", mem |-> m, new |-> <<>>]
    ELSE IF TooFewSamples(m, a1) \/ TooFewSamples(m, a2)
    THEN [status |-> "ValueError", raised_by |-> "interp1d", mem |-> m, new |-> <<>>]
    ELSE LET xsi == linspace(n_points)
             y1 == interpolate_y(m, a1, xsi)
             y2 == interpolate_y(m, a2, xsi)
             upper == <<xsi, blend(y1[1], y2[1], eta)>>
             lower == <<xsi, blend(y1[2], y2[2], eta)>>
             r == Airfoil_init(m \o <<upper, lower>>, Len(m) + 1, Len(m) + 2)
         IN  IF r.status = "ok"
             THEN [status |-> "ok", raised_by |-> "", mem |-> r.mem, new |-> r.new]
             ELSE [status |-> r.status, raised_by |-> "Airfoil", mem |-> m, new |-> <<>>]

\* MorphAirfoil(airfoil1, airfoil2, n_points).at_eta(eta)
at_eta(m, morph, eta) ==
    morph_new_from_two_foils(m, morph.airfoil1, morph.airfoil2, eta, morph.n_points)

(***************************************************************************)
(* NACA 4-digit camber line (gen_NACA4_airfoil.yc).  p and m are Python    *)
(* floats there, so m/p**2 with p = 0.0 raises ZeroDivisionError.  The      *)
(* thickness distribution and the rotation by arctan(dyc) need sqrt, sin   *)
(* and cos and are not part of the model.                                  *)
(***************************************************************************)
\* p = float(naca_digits[0])/10, m = float(naca_digits[1])/100
naca_p(digit) == R(digit, 10)
naca_m(digit) == R(digit, 100)

\* a variant with the guard `x <= p`
takes_lt_branch_or_equal(x, p) == Le(x, p)

\* the guard of `... if x < p else ...`
takes_lt_branch(x, p) == Lt(x, p)

\* the denominator each branch divides m by: p**2, or (1 - p)**2
branch_den(lt, p) == IF lt THEN Mul(p, p) ELSE Mul(Sub(One, p), Sub(One, p))

yc_xsi_lt_p(p, m, x)  == Mul(Div(m, Mul(p, p)), Sub(Mul(Mul(Two, p), x), Mul(x, x)))
dyc_xsi_lt_p(p, m, x) == Mul(Div(Mul(Two, m), Mul(p, p)), Sub(p, x))
yc_xsi_ge_p(p, m, x)  ==
    Mul(Div(m, Mul(Sub(One, p), Sub(One, p))),
        Sub(Add(Sub(One, Mul(Two, p)), Mul(Mul(Two, p), x)), Mul(x, x)))
dyc_xsi_ge_p(p, m, x) == Mul(Div(Mul(Two, m), Mul(Sub(One, p), Sub(One, p))), Sub(p, x))

\* yc(p, m, xsi): the two list comprehensions over the samples
yc(p, m, xsi) ==
    LET n == Len(xsi)
        lt == [i \in 1..n |-> takes_lt_branch(xsi[i], p)] \o <<>>
        den == [i \in 1..n |-> branch_den(lt[i], p)] \o <<>>
    IN  IF \E i \in 1..n : den[i] = Zero
        THEN [status |-> "ZeroDivisionError", lt |-> lt, den |-> den,
              yc |-> <<>>, dyc |-> <<>>]
        ELSE [status |-> "ok", lt |-> lt, den |-> den,
              yc |-> [i \in 1..n |-> IF lt[i] THEN yc_xsi_lt_p(p, m, xsi[i])
                                              ELSE yc_xsi_ge_p(p, m, xsi[i])],
              dyc |-> [i \in 1..n |-> IF lt[i] THEN dyc_xsi_lt_p(p, m, xsi[i])
                                               ELSE dyc_xsi_ge_p(p, m, xsi[i])]]

(***************************************************************************)
(* The caller: its coordinate arrays and the calls it makes.  An exception *)
(* is not caught: after a call that raised, the run makes no further call. *)
(***************************************************************************)
F(n) == <<n, 1>>
Ints(s) == [i \in 1..Len(s) |-> F(s[i])]

U4     == <<Ints(<<0, 1, 2, 4>>), Ints(<<0, 2, 1, 0>>)>>
L4     == <<Ints(<<0, 1, 2, 4>>), Ints(<<0, -2, -1, 0>>)>>
L4r    == <<Ints(<<4, 2, 1, 0>>), Ints(<<0, -1, -2, 0>>)>>
U4off  == <<Ints(<<2, 3, 4, 6>>), Ints(<<0, 2, 1, 0>>)>>
U4nm   == <<Ints(<<0, 2, 1, 4>>), Ints(<<0, 1, 2, 0>>)>>
Udeg   == <<Ints(<<1, 2, 3, 1>>), Ints(<<0, 1, 1, 0>>)>>
Usteep == <<Ints(<<0, 1, 2, 4>>), Ints(<<0, 8, 2, 0>>)>>
L4c    == <<Ints(<<0, 1, 3, 4>>), Ints(<<0, -1, -1, 0>>)>>
S2     == <<Ints(<<0, 2>>), Ints(<<1, 1>>)>>
\* UPPER and LOWER of tests/test_basic.py
UPPER  == <<<<Zero, R(1, 10), R(1, 2), One>>, <<Zero, R(3, 10), R(1, 5), Zero>>>>
LOWER  == <<<<Zero, R(1, 10), R(1, 2), One>>, <<Zero, R(-3, 10), R(-1, 5), Zero>>>>

\* the (upper, lower) arrays a caller holds
InputPairs ==
    { <<U4, L4>>, <<U4, L4r>>, <<UPPER, LOWER>>, <<U4off, L4>>, <<U4nm, L4>>,
      <<Udeg, L4>>, <<U4, S2>>, <<Usteep, L4c>> }

\* the pairs the two airfoils of a morph are built from
MorphInputs == { <<U4, L4r>>, <<UPPER, LOWER>>, <<Usteep, L4c>>, <<U4, S2>> }

CallerArrays == {1, 2}

Etas == { R(-1, 10), Zero, R(1, 2), One, R(6, 5) }
PointCounts == {0, 1, 2, 4}

Scalar(v) == [scalar |-> TRUE, pts |-> <<v>>]
Vector(s) == [scalar |-> FALSE, pts |-> s]
XsiInputs ==
    { Scalar(Zero), Scalar(R(1, 4)), Scalar(One),
      Vector(<<>>), Vector(<<Zero, R(1, 4), One>>) }

NacaDigits == 0..9
NacaPointCounts == {1, 2, 3, 6, 11}

MaxAirfoils == 3

Call(op, args, status, raised_by, val) ==
    [op |-> op, args |-> args, status |-> status, raised_by |-> raised_by, val |-> val]
NoCall == Call("none", <<>>, "ok", "", <<>>)
NoNaca == [digits |-> <<>>, n_points |-> 0, status |-> "none", xsi |-> <<>>,
           lt |-> <<>>, den |-> <<>>, yc |-> <<>>, dyc |-> <<>>]

Running == res.status = "ok"

\* the caller holds two arrays and has built nothing yet
Init ==
    /\ \E pair \in InputPairs : mem = pair
    /\ airfoils = <<>>
    /\ res = NoCall
    /\ naca = NoNaca

\* Airfoil(upper, lower) on two of the caller's arrays
Construct(u, l) ==
    /\ Running
    /\ Len(airfoils) < MaxAirfoils
    /\ \E r \in {Airfoil_init(mem, u, l)} :
           /\ mem' = r.mem
           /\ airfoils' = airfoils \o r.new
           /\ res' = Call("Airfoil", <<u, l>>, r.status, "", <<>>)
    /\ UNCHANGED naca

AllPoints(i) ==
    /\ Running
    /\ res' = Call("all_points", <<i>>, "ok", "", all_points(mem, airfoils[i]))
    /\ UNCHANGED <<mem, airfoils, naca>>

Next ==
    \/ \E u, l \in CallerArrays : Construct(u, l)
    \/ \E i \in 1..Len(airfoils) : AllPoints(i)

Spec == Init /\ [][Next]_vars

(***************************************************************************)
(* Queries on one airfoil, built from two of the caller's arrays           *)
(***************************************************************************)
InitQuery ==
    /\ \E pair \in InputPairs, u, l \in CallerArrays :
          \E r \in {Airfoil_init(pair, u, l)} : mem = r.mem /\ airfoils = r.new
    /\ res = NoCall
    /\ naca = NoNaca

\* a query that builds interp1d: ValueError on fewer than four samples
Query(op, i, xsi, value(_, _, _)) ==
    /\ Running
    /\ Modelled(mem, airfoils[i])
    /\ res' = IF TooFewSamples(mem, airfoils[i])
              THEN Call(op, <<i, xsi>>, "ValueError", "interp1d", <<>>)
              ELSE Call(op, <<i, xsi>>, "ok", "", value(mem, airfoils[i], xsi))
    /\ UNCHANGED <<mem, airfoils, naca>>

interpolate_y_call(m, a, xsi) ==
    [scalar |-> xsi.scalar, pts |-> interpolate_y(m, a, xsi.pts)]
camber_line_call(m, a, xsi) ==
    [scalar |-> xsi.scalar, pts |-> camber_line(m, a, xsi.pts)]

InterpolateY(i, xsi)    == Query("interpolate_y", i, xsi, interpolate_y_call)
CamberLine(i, xsi)      == Query("camber_line", i, xsi, camber_line_call)
CamberLineAngle(i, xsi) == Query("camber_line_angle", i, xsi, camber_line_angle)

NextQuery ==
    \/ \E i \in 1..Len(airfoils), xsi \in XsiInputs : InterpolateY(i, xsi)
    \/ \E i \in 1..Len(airfoils), xsi \in XsiInputs : CamberLine(i, xsi)
    \/ \E i \in 1..Len(airfoils), xsi \in XsiInputs : CamberLineAngle(i, xsi)

SpecQuery == InitQuery /\ [][NextQuery]_vars

(***************************************************************************)
(* Morphing two airfoils, each built from its own pair of arrays.  The      *)
(* morph is a function of its arguments: a run makes one call.             *)
(***************************************************************************)
InitMorph ==
    /\ \E pa, pb \in MorphInputs :
          \E ra \in {Airfoil_init(pa \o pb, 1, 2)} :
          \E rb \in {Airfoil_init(ra.mem, 3, 4)} :
              mem = rb.mem /\ airfoils = ra.new \o rb.new
    /\ res = NoCall
    /\ naca = NoNaca

\* val: the position in `airfoils` of the object returned
MorphCall(op, i, j, eta, n, r) ==
    /\ mem' = r.mem
    /\ airfoils' = airfoils \o r.new
    /\ res' = Call(op, <<i, j, eta, n>>, r.status, r.raised_by,
                   IF r.status = "ok" THEN <<Len(airfoils) + 1>> ELSE <<>>)
    /\ UNCHANGED naca

Morph(i, j, eta, n) ==
    /\ res = NoCall
    /\ Modelled(mem, airfoils[i]) /\ Modelled(mem, airfoils[j])
    /\ \E r \in {morph_new_from_two_foils(mem, airfoils[i], airfoils[j], eta, n)} :
           MorphCall("morph_new_from_two_foils", i, j, eta, n, r)

AtEta(i, j, eta, n) ==
    /\ res = NoCall
    /\ Modelled(mem, airfoils[i]) /\ Modelled(mem, airfoils[j])
    /\ \E r \in {at_eta(mem, [airfoil1 |-> airfoils[i], airfoil2 |-> airfoils[j],
                              n_points |-> n], eta)} :
           MorphCall("at_eta", i, j, eta, n, r)

NextMorph ==
    \/ \E i, j \in 1..Len(airfoils), eta \in Etas, n \in PointCounts : Morph(i, j, eta, n)
    \/ \E i, j \in 1..Len(airfoils), eta \in Etas, n \in PointCounts : AtEta(i, j, eta, n)

SpecMorph == InitMorph /\ [][NextMorph]_vars

(***************************************************************************)
(* NACA4: the camber line for a 4-digit identifier and a point count, both *)
(* drawn at the start; the call is made once.                              *)
(***************************************************************************)
InitNaca ==
    /\ mem = <<>> /\ airfoils = <<>> /\ res = NoCall
    /\ \E d1, d2 \in NacaDigits, n \in NacaPointCounts :
           naca = [NoNaca EXCEPT !.digits = <<d1, d2>>, !.n_points = n,
                                 !.status = "pending"]

\* Airfoil.NACA4(digits, n_points) up to the camber line of the generator
Naca4Camber ==
    /\ naca.status = "pending"
    /\ \E r \in {yc(naca_p(naca.digits[1]), naca_m(naca.digits[2]),
                     linspace(naca.n_points))} :
           naca' = [naca EXCEPT !.status = r.status, !.xsi = linspace(naca.n_points),
                                !.lt = r.lt, !.den = r.den, !.yc = r.yc, !.dyc = r.dyc]
    /\ UNCHANGED <<mem, airfoils, res>>

NextNaca == Naca4Camber

SpecNaca == InitNaca /\ [][NextNaca]_vars

(***************************************************************************)
(* Properties                                                              *)
(***************************************************************************)
MorphOps == {"morph_new_from_two_foils", "at_eta"}

\* the last call was Airfoil(upper, lower) and returned: the new object is
\* the last one, built from the caller's arrays res.args
Constructed == res.op = "Airfoil" /\ res.status = "ok"
NewAirfoil  == airfoils[Len(airfoils)]

FiniteArray(arr) == AllFinite(arr[XROW]) /\ AllFinite(arr[YROW])
NonDecreasing(s) == \A k \in 1..(Len(s) - 1) : Le(s[k], s[k + 1])
Stored(m, a) == <<x_upper(m, a), y_upper(m, a), x_lower(m, a), y_lower(m, a)>>

\* C1: after Airfoil(upper, lower) on two different arrays with a non-zero
\* upper chordwise extent, the stored x_upper starts at 0 and ends at 1.
C1_UpperSpansZeroToOne ==
    (Constructed /\ res.args[1] # res.args[2] /\ Len(airfoils) = 1
        /\ NewAirfoil.norm_factor # Zero)
    => LET xu == x_upper(mem, NewAirfoil)
       IN  xu[1] = Zero /\ Last(xu) = One

\* C2 as stated: after construction from finite arrays with a non-zero
\* extent, the x-sequence of each surface is non-decreasing throughout.
C2_XNonDecreasingThroughout ==
    (Constructed /\ res.args[1] # res.args[2] /\ Len(airfoils) = 1
        /\ NewAirfoil.norm_factor # Zero)
    => /\ NonDecreasing(x_upper(mem, NewAirfoil))
       /\ NonDecreasing(x_lower(mem, NewAirfoil))

\* the view of row `row` of array b that reordering must produce for input x
OrderedView(b, row, x) == [buf |-> b, row |-> row, rev |-> x[1][1] * Last(x)[2] > Last(x)[1] * x[1][2]]

\* C2, amended: a construction from finite arrays leaves each surface read
\* through views of its own array, x and y reversed together exactly when the
\* first input x-sample is greater than the last (so every (x, y) pair stays
\* paired), and, when norm_factor is not zero, the first stored x-sample of
\* each surface is at most its last.
C2_EndpointsOrderedAndPaired ==
    [][ (res'.op = "Airfoil" /\ res'.status = "ok"
            /\ FiniteArray(mem[res'.args[1]]) /\ FiniteArray(mem[res'.args[2]]))
        => LET u == res'.args[1]
               l == res'.args[2]
               a == airfoils'[Len(airfoils')]
           IN  /\ a.x_upper = OrderedView(u, XROW, mem[u][XROW])
               /\ a.y_upper = OrderedView(u, YROW, mem[u][XROW])
               /\ a.x_lower = OrderedView(l, XROW, mem[l][XROW])
               /\ a.y_lower = OrderedView(l, YROW, mem[l][XROW])
               /\ a.norm_factor # Zero =>
                     /\ Le(x_upper(mem', a)[1], Last(x_upper(mem', a)))
                     /\ Le(x_lower(mem', a)[1], Last(x_lower(mem', a)))
      ]_vars

\* a lower surface given back to front was reversed, the upper one was not
C2_Witness ==
    /\ Constructed /\ NewAirfoil.norm_factor # Zero
    /\ NewAirfoil.x_lower.rev /\ NewAirfoil.y_lower.rev /\ ~NewAirfoil.x_upper.rev
    /\ Le(x_lower(mem, NewAirfoil)[1], Last(x_lower(mem, NewAirfoil)))

\* the input row x as reordering leaves it, and divided once by f
Reordered(x, row) == IF x[1][1] * Last(x)[2] > Last(x)[1] * x[1][2] THEN Reverse(row) ELSE row
DividedOnce(row, f) == [k \in 1..Len(row) |-> Div(row[k], f)]

\* C3: a construction sets norm_factor to the extent of the reordered upper
\* x-row, and each of the four stored arrays is the reordered input array
\* divided once by it.
C3_EachArrayDividedOnce ==
    [][ (res'.op = "Airfoil" /\ res'.status = "ok")
        => LET u  == mem[res'.args[1]]
               l  == mem[res'.args[2]]
               a  == airfoils'[Len(airfoils')]
               xu == Reordered(u[XROW], u[XROW])
               nf == FAbs(Sub(Last(xu), xu[1]))
           IN  /\ a.norm_factor = nf
               /\ x_upper(mem', a) = DividedOnce(xu, nf)
               /\ y_upper(mem', a) = DividedOnce(Reordered(u[XROW], u[YROW]), nf)
               /\ x_lower(mem', a) = DividedOnce(Reordered(l[XROW], l[XROW]), nf)
               /\ y_lower(mem', a) = DividedOnce(Reordered(l[XROW], l[YROW]), nf)
      ]_vars

\* every Airfoil so far was given two different arrays
NoSharedArray(afs) == \A i \in 1..Len(afs) : afs[i].x_upper.buf # afs[i].x_lower.buf

\* C6: no step changes the arrays or the norm_factor of an Airfoil that
\* exists already (here: among airfoils each built from two different arrays).
C6_ConstructedAirfoilsNeverChange ==
    [][ NoSharedArray(airfoils')
        => \A i \in 1..Len(airfoils) :
            /\ Stored(mem', airfoils'[i]) = Stored(mem, airfoils[i])
            /\ airfoils'[i].norm_factor = airfoils[i].norm_factor ]_vars

\* C9: all_points returns two rows of len(upper) + len(lower) columns, the
\* upper surface's stored samples first and the lower surface's after them.
C9_AllPointsIsUpperThenLower ==
    res.op = "all_points"
    => LET a  == airfoils[res.args[1]]
           nu == Len(x_upper(mem, a))
           nl == Len(x_lower(mem, a))
       IN  /\ Len(res.val) = 2
           /\ Len(res.val[1]) = nu + nl /\ Len(res.val[2]) = nu + nl
           /\ \A k \in 1..nu : /\ res.val[1][k] = x_upper(mem, a)[k]
                               /\ res.val[2][k] = y_upper(mem, a)[k]
           /\ \A k \in 1..nl : /\ res.val[1][nu + k] = x_lower(mem, a)[k]
                               /\ res.val[2][nu + k] = y_lower(mem, a)[k]

\* surfaces of different lengths that share their first x-sample: it is
\* there twice
C9_Witness ==
    /\ res.op = "all_points"
    /\ LET a == airfoils[res.args[1]]
       IN  /\ Len(x_upper(mem, a)) # Len(x_lower(mem, a))
           /\ x_upper(mem, a)[1] = x_lower(mem, a)[1]
           /\ y_upper(mem, a) # y_lower(mem, a)
           /\ res.val[1][1] = res.val[1][Len(x_upper(mem, a)) + 1]

\* eta lies in [0, 1], decided on the fraction itself
EtaInUnitInterval(eta) == eta[2] > 0 /\ eta[1] >= 0 /\ eta[1] <= eta[2]

\* C4: a morph, direct or through MorphAirfoil.at_eta, with eta outside
\* [0, 1] raises the ValueError of the eta check, whatever the airfoils are,
\* leaving heap and objects as they were; with eta in [0, 1] that check
\* raises nothing.
C4_EtaValidatedFirst ==
    [][ res'.op \in MorphOps
        => IF EtaInUnitInterval(res'.args[3])
           THEN res'.raised_by # "eta"
           ELSE /\ res'.status = "ValueError" /\ res'.raised_by = "eta"
                /\ mem' = mem /\ airfoils' = airfoils
      ]_vars

\* at_eta rejected eta = 6/5 on an airfoil interp1d could not even be built
\* for
C4_Witness ==
    /\ res.op = "at_eta" /\ res.args[3] = R(6, 5)
    /\ res.status = "ValueError" /\ res.raised_by = "eta"
    /\ TooFewSamples(mem, airfoils[res.args[1]])
    /\ Len(airfoils) = 2

\* what C5 says of a returned morph at eta = 0 (source = airfoil1) or eta = 1
\* (source = airfoil2): x is the uniform grid, y the source's interpolate_y
\* on it, and norm_factor is 1
ReproducesSource ==
    /\ res.status = "ok"
    /\ LET n    == res.args[4]
           grid == [k \in 1..n |-> IF n = 1 THEN Zero ELSE R(k - 1, n - 1)]
           src  == airfoils[IF res.args[3] = Zero THEN res.args[1] ELSE res.args[2]]
           new  == airfoils[res.val[1]]
       IN  /\ x_upper(mem, new) = grid /\ x_lower(mem, new) = grid
           /\ y_upper(mem, new) = interpolate_y(mem, src, grid)[1]
           /\ y_lower(mem, new) = interpolate_y(mem, src, grid)[2]
           /\ new.norm_factor = One

MorphAtEndpoint ==
    /\ res.op \in MorphOps /\ res.args[3] \in {Zero, One}
    /\ Interpolable(mem, airfoils[res.args[1]])
    /\ Interpolable(mem, airfoils[res.args[2]])

\* C5 as stated: for every point count, the morph of two interpolable
\* airfoils at eta = 0 (eta = 1) is airfoil1 (airfoil2) resampled on the grid.
C5_EndpointsReproduceForEveryN == MorphAtEndpoint => ReproducesSource

\* C5, amended: the same for every point count of at least 2.
C5_EndpointsReproduceFromTwoPoints ==
    (MorphAtEndpoint /\ res.args[4] >= 2) => ReproducesSource

\* eta = 1 between two airfoils whose surfaces differ on the grid
C5_Witness ==
    /\ MorphAtEndpoint /\ res.args[3] = One /\ res.args[4] = 4 /\ res.status = "ok"
    /\ interpolate_y(mem, airfoils[res.args[1]], linspace(4))
         # interpolate_y(mem, airfoils[res.args[2]], linspace(4))

\* same x-sampling on both surfaces and y_upper = -y_lower pointwise
Symmetric(m, a) ==
    /\ x_upper(m, a) = x_lower(m, a)
    /\ \A k \in 1..Len(y_upper(m, a)) : y_upper(m, a)[k] = Neg(y_lower(m, a)[k])

\* C7: on a symmetric airfoil, camber_line and camber_line_angle return 0 at
\* every position asked for.
C7_SymmetricCamberIsZero ==
    (res.op \in {"camber_line", "camber_line_angle"} /\ res.status = "ok"
        /\ Symmetric(mem, airfoils[res.args[1]]))
    => \A k \in 1..Len(res.val.pts) : res.val.pts[k] = Zero

\* the angle at three points of a symmetric airfoil whose lower surface was
\* given back to front
C7_Witness ==
    /\ res.op = "camber_line_angle" /\ res.status = "ok"
    /\ Symmetric(mem, airfoils[res.args[1]])
    /\ airfoils[res.args[1]].x_lower.rev
    /\ res.val.pts = <<Zero, Zero, Zero>>

\* C8: camber_line_angle returns, per position, the angle of the difference
\* quotient when it is within 50 degrees and 0 when it is beyond; so every
\* angle returned is within 50 degrees; a scalar gives a scalar and a
\* sequence a result of its length.
C8_AngleClampedAndShaped ==
    (res.op = "camber_line_angle" /\ res.status = "ok")
    => LET xsi == res.args[2]
           d   == derivative(mem, airfoils[res.args[1]], xsi.pts)
       IN  /\ res.val.scalar = xsi.scalar
           /\ Len(res.val.pts) = Len(xsi.pts)
           /\ \A k \in 1..Len(xsi.pts) :
                 /\ ~Bracketed(d[k])
                 /\ ~Gt(FAbs(res.val.pts[k]), TAN_LIMIT_LO)
                 /\ res.val.pts[k] = IF Gt(d[k], TAN_LIMIT_HI) \/ Lt(d[k], Neg(TAN_LIMIT_HI))
                                     THEN Zero ELSE d[k]

\* a sequence with a slope beyond the limit and a non-zero slope within it
C8_Witness ==
    /\ res.op = "camber_line_angle" /\ res.status = "ok" /\ ~res.args[2].scalar
    /\ LET d == derivative(mem, airfoils[res.args[1]], res.args[2].pts)
       IN  /\ \E k \in 1..Len(d) : Gt(FAbs(d[k]), TAN_LIMIT_HI) /\ res.val.pts[k] = Zero
           /\ \E k \in 1..Len(d) : res.val.pts[k] # Zero

\* C10: the camber evaluation of every identifier and grid divides by no
\* zero: a sample takes the p**2 formula only when it is below p, and the
\* (1 - p)**2 formula only with p below 1.
C10_NoDivisionByZero ==
    naca.status # "pending"
    => /\ naca.status = "ok"
       /\ Len(naca.lt) = naca.n_points /\ Len(naca.yc) = naca.n_points
       /\ \A k \in 1..naca.n_points :
             LET x == naca.xsi[k]
                 d == naca.digits[1]
             IN  /\ naca.den[k] # Zero
                 /\ naca.lt[k] => 10 * x[1] < d * x[2]
                 /\ ~naca.lt[k] => d < 10 /\ 10 * x[1] >= d * x[2]

\* identifier 00xx (p = 0, m = 0) on the grid of eleven points
C10_Witness ==
    /\ naca.status = "ok" /\ naca.digits = <<0, 0>> /\ naca.n_points = 11
    /\ \A k \in 1..11 : ~naca.lt[k] /\ naca.yc[k] = Zero

====
